---- MODULE Spec2Model ----
(***************************************************************************)
(* A model of the financial fact normalisation engine of                   *)
(* from_pdf_to_figure_prototype/v4.py: numeric literal parsing, unit       *)
(* inference, year-header detection, fact assembly (parse_table) and the   *)
(* SQLite fact store (INSERT OR REPLACE under the unique index u_facts).    *)
(*                                                                         *)
(* Text is modelled character by character: a Python str is a sequence of  *)
(* one-character atoms.  Characters outside ASCII are written as named     *)
(* atoms: "<euro>", "<pound>", "<yen>", "<endash>", "<emdash>", "<rsquo>"   *)
(* (U+2019) and "<nbsp>" (U+00A0).  A Python float is modelled as the exact *)
(* decimal m * 10^x, kept in canonical form (m not divisible by 10).       *)
(***************************************************************************)
EXTENDS Integers, Sequences, FiniteSets, TLC

VARIABLES
    store,    \* rows of table financial_facts, in rowid order
    seq,      \* sqlite_sequence: the largest rowid ever handed out
    latest,   \* history: the arguments of the insert_fact calls made so far
    df,       \* the grid handed to parse_table / find_year_header_map
    page,     \* the page context handed to parse_table
    runs,     \* how many times parse_table ran on (df, page)
    first,    \* history: the store content after the first run
    raw,      \* the argument of clean_numeric
    val,      \* the outcome of clean_numeric
    text,     \* the argument of detect_currency_and_scale
    units,    \* the outcome of detect_currency_and_scale
    header,   \* the outcome of find_year_header_map
    label,    \* the outcome of detect_section_label
    pdfs,     \* main: the documents matched by the glob, sorted
    pos,      \* main: the document, page and table the run has reached
    committed,\* the rows of financial_facts as of the last db.commit()
    log,      \* history: what the run did, step by step
    long,     \* export_all: the records of the long export
    wide,     \* export_all: the records of the wide export
    pc        \* position of the driver

vars == <<store, seq, latest, df, page, runs, first, raw, val, text, units, header,
          label, pdfs, pos, committed, log, long, wide, pc>>

-----------------------------------------------------------------------------
(* Characters and strings                                                  *)

EURO == "<euro>"
POUND == "<pound>"
YEN == "<yen>"
ENDASH == "<endash>"
EMDASH == "<emdash>"
RSQUO == "<rsquo>"
NBSP == "<nbsp>"

DigitSeq == <<"0", "1", "2", "3", "4", "5", "6", "7", "8", "9">>
LowerSeq == <<"a", "b", "c", "d", "e", "f", "g", "h", "i", "j", "k", "l", "m",
              "n", "o", "p", "q", "r", "s", "t", "u", "v", "w", "x", "y", "z">>
UpperSeq == <<"A", "B", "C", "D", "E", "F", "G", "H", "I", "J", "K", "L", "M",
              "N", "O", "P", "Q", "R", "S", "T", "U", "V", "W", "X", "Y", "Z">>

Range(s) == {s[i] : i \in DOMAIN s}

DigitChars == Range(DigitSeq)
UpperChars == Range(UpperSeq)
WordChars == Range(DigitSeq) \cup Range(LowerSeq) \cup Range(UpperSeq) \cup {"_"}

\* regex \d
IsDigit(c) == c \in DigitChars

\* regex \w
IsWord(c) == c \in WordChars

\* regex \s
IsSpace(c) == c \in {" ", NBSP}

DigitVal(c) == (CHOOSE i \in DOMAIN DigitSeq : DigitSeq[i] = c) - 1

\* str.lower() on one character (also the re.I folding of one character)
LowerChar(c) ==
    IF c \in UpperChars
    THEN LowerSeq[CHOOSE i \in DOMAIN UpperSeq : UpperSeq[i] = c]
    ELSE c

Lower(s) == [i \in DOMAIN s |-> LowerChar(s[i])]

\* str.count(c)
Count(s, c) == Cardinality({i \in DOMAIN s : s[i] = c})

\* w occurs in s at position i (1-based), case-sensitively
OccursAt(s, i, w) ==
    /\ i >= 1
    /\ i + Len(w) - 1 <= Len(s)
    /\ \A k \in DOMAIN w : s[i + k - 1] = w[k]

\* Python `w in s`
Contains(s, w) == \E i \in 1..(Len(s) + 1) : OccursAt(s, i, w)

\* regex \b between positions p - 1 and p, p in 1..Len(s)+1
WordAt(s, p) == p >= 1 /\ p <= Len(s) /\ IsWord(s[p])
Boundary(s, p) == WordAt(s, p - 1) # WordAt(s, p)

\* w matches at position i of s, ignoring case (w is written in lower case)
MatchAt(s, i, w) ==
    /\ i >= 1
    /\ i + Len(w) - 1 <= Len(s)
    /\ \A k \in DOMAIN w : LowerChar(s[i + k - 1]) = w[k]

\* the position after the run of whitespace that starts at i (regex \s*)
RECURSIVE SkipSpaces(_, _)
SkipSpaces(s, i) == IF i <= Len(s) /\ IsSpace(s[i]) THEN SkipSpaces(s, i + 1) ELSE i

RECURSIVE Concat(_)
Concat(ss) == IF ss = <<>> THEN <<>> ELSE Head(ss) \o Concat(Tail(ss))

\* sep.join(ss)
RECURSIVE Join(_, _)
Join(sep, ss) ==
    IF ss = <<>> THEN <<>>
    ELSE IF Len(ss) = 1 THEN ss[1]
    ELSE ss[1] \o sep \o Join(sep, Tail(ss))

-----------------------------------------------------------------------------
(* normalize_text                                                          *)

\* the three str.replace calls for PDF spaces and the typographic quote
ReplaceChars(s) ==
    [i \in DOMAIN s |-> IF s[i] = NBSP THEN " "
                        ELSE IF s[i] = RSQUO THEN "'"
                        ELSE s[i]]

\* re.sub(r"\s+", " ", s)
RECURSIVE CollapseSpaces(_)
CollapseSpaces(s) ==
    IF s = <<>> THEN <<>>
    ELSE IF IsSpace(s[1])
         THEN IF Len(s) >= 2 /\ IsSpace(s[2])
              THEN CollapseSpaces(Tail(s))
              ELSE <<" ">> \o CollapseSpaces(Tail(s))
         ELSE <<s[1]>> \o CollapseSpaces(Tail(s))

\* str.strip(): leading and trailing whitespace removed
RECURSIVE LStrip(_, _)
LStrip(s, cs) == IF s # <<>> /\ s[1] \in cs THEN LStrip(Tail(s), cs) ELSE s

RECURSIVE RStrip(_, _)
RStrip(s, cs) ==
    IF s # <<>> /\ s[Len(s)] \in cs THEN RStrip(SubSeq(s, 1, Len(s) - 1), cs) ELSE s

StripChars(s, cs) == RStrip(LStrip(s, cs), cs)

normalize_text(s) == StripChars(CollapseSpaces(ReplaceChars(s)), {" ", NBSP})

-----------------------------------------------------------------------------
(* Floats as exact decimals m * 10^x                                       *)

None == [kind |-> "None"]
ValueError == [kind |-> "ValueError"]

RECURSIVE Norm(_, _)
Norm(m, x) ==
    IF m = 0 THEN [kind |-> "float", m |-> 0, x |-> 0]
    ELSE IF m % 10 = 0 THEN Norm(m \div 10, x + 1)
    ELSE [kind |-> "float", m |-> m, x |-> x]

Neg(v) == Norm(0 - v.m, v.x)

\* v * 10^k
Scaled(v, k) == Norm(v.m, v.x + k)

\* the integer written by a string of digits
RECURSIVE DigitsValue(_)
DigitsValue(s) ==
    IF s = <<>> THEN 0
    ELSE 10 * DigitsValue(SubSeq(s, 1, Len(s) - 1)) + DigitVal(s[Len(s)])

AllDigits(s) == \A i \in DOMAIN s : IsDigit(s[i])

\* float(s) for a string of digits, periods and minus signs:
\*   [-] digits [. [digits]]  |  [-] . digits      anything else: ValueError
float(s) ==
    LET neg  == s # <<>> /\ s[1] = "-"
        body == IF neg THEN Tail(s) ELSE s
        dots == {i \in DOMAIN body : body[i] = "."}
        dot  == IF dots = {} THEN Len(body) + 1 ELSE CHOOSE i \in dots : TRUE
        ip   == SubSeq(body, 1, dot - 1)
        fp   == SubSeq(body, dot + 1, Len(body))
        ok   == /\ Cardinality(dots) <= 1
                /\ AllDigits(ip) /\ AllDigits(fp)
                /\ Len(ip) + Len(fp) >= 1
        mag  == Norm(DigitsValue(ip \o fp), 0 - Len(fp))
    IN  IF ~ok THEN ValueError
        ELSE IF neg THEN Neg(mag) ELSE mag

-----------------------------------------------------------------------------
(* clean_numeric                                                           *)

\* re.sub(r"[^\d,.-]", "", s)
KeepNumericChars(s) == SelectSeq(s, LAMBDA c : IsDigit(c) \/ c \in {",", ".", "-"})

\* more than one period: every period but the last is dropped
RECURSIVE DropAllButLastDot(_)
DropAllButLastDot(s) ==
    IF Count(s, ".") <= 1 THEN s
    ELSE LET i == CHOOSE k \in DOMAIN s :
                      s[k] = "." /\ \A j \in 1..(k - 1) : s[j] # "."
         IN  DropAllButLastDot(SubSeq(s, 1, i - 1) \o SubSeq(s, i + 1, Len(s)))

RemoveCommas(s) == SelectSeq(s, LAMBDA c : c # ",")

\* float_or_none without the except clause: the ValueError escapes
float_uncaught(s, neg) ==
    LET v == float(s)
    IN  IF v = ValueError THEN v
        ELSE IF neg THEN Neg(v) ELSE v

\* the try/except of clean_numeric: ValueError becomes None
float_or_none(s, neg) ==
    LET v == float(s)
    IN  IF v = ValueError THEN None
        ELSE IF neg THEN Neg(v) ELSE v

\* the string handed to float(): parentheses stripped, foreign characters
\* dropped, periods reduced to the last one, commas removed
residual(s0) ==
    RemoveCommas(DropAllButLastDot(KeepNumericChars(StripChars(s0, {"(", ")"}))))

\* s.startswith("(") and s.endswith(")")
Parenthesised(s) == s # <<>> /\ s[1] = "(" /\ s[Len(s)] = ")"

\* clean_numeric testing for the parentheses after they were stripped
clean_numeric_late_neg(cell) ==
    LET s0 == normalize_text(cell)
    IN  IF s0 \in {<<>>, <<"-">>, <<ENDASH>>, <<EMDASH>>} THEN None
        ELSE float_or_none(residual(s0), Parenthesised(StripChars(s0, {"(", ")"})))

clean_numeric(cell) ==
    LET s0 == normalize_text(cell)
    IN  IF s0 \in {<<>>, <<"-">>, <<ENDASH>>, <<EMDASH>>} THEN None
        ELSE float_or_none(residual(s0), Parenthesised(s0))

-----------------------------------------------------------------------------
(* Section classification: detect_section_label                            *)

S_consolidated == <<"c", "o", "n", "s", "o", "l", "i", "d", "a", "t", "e", "d">>
S_statement == <<"s", "t", "a", "t", "e", "m", "e", "n", "t">>
S_of == <<"o", "f">>
S_profit == <<"p", "r", "o", "f", "i", "t">>
S_loss == <<"l", "o", "s", "s">>
S_income == <<"i", "n", "c", "o", "m", "e">>
S_operations == <<"o", "p", "e", "r", "a", "t", "i", "o", "n", "s">>
S_or == <<"o", "r">>
S_balance == <<"b", "a", "l", "a", "n", "c", "e">>
S_sheet == <<"s", "h", "e", "e", "t">>
S_financial == <<"f", "i", "n", "a", "n", "c", "i", "a", "l">>
S_position == <<"p", "o", "s", "i", "t", "i", "o", "n">>
S_cash == <<"c", "a", "s", "h">>
S_flow == <<"f", "l", "o", "w">>
S_flows == <<"f", "l", "o", "w", "s">>
S_key == <<"k", "e", "y">>
S_metric == <<"m", "e", "t", "r", "i", "c">>
S_metrics == <<"m", "e", "t", "r", "i", "c", "s">>
S_performance == <<"p", "e", "r", "f", "o", "r", "m", "a", "n", "c", "e">>
S_indicator == <<"i", "n", "d", "i", "c", "a", "t", "o", "r">>
S_indicators == <<"i", "n", "d", "i", "c", "a", "t", "o", "r", "s">>
S_highlight == <<"h", "i", "g", "h", "l", "i", "g", "h", "t">>
S_highlights == <<"h", "i", "g", "h", "l", "i", "g", "h", "t", "s">>
S_summary == <<"s", "u", "m", "m", "a", "r", "y">>

\* SECTION_PATTERNS, in dict order; a pattern is the set of word sequences
\* it accepts (words separated by \s+, the whole between two \b)
SECTION_PATTERNS ==
    << [section |-> "income_statement",
        phrases |-> { <<S_consolidated, S_statement, S_of, S_profit>>,
                      <<S_consolidated, S_statement, S_of, S_loss>>,
                      <<S_consolidated, S_statement, S_of, S_income>>,
                      <<S_statement, S_of, S_operations>>,
                      <<S_profit, S_or, S_loss>>,
                      <<S_income, S_statement>> }],
       [section |-> "balance_sheet",
        phrases |-> { <<S_consolidated, S_statement, S_of, S_financial, S_position>>,
                      <<S_consolidated, S_balance, S_sheet>>,
                      <<S_balance, S_sheet>>,
                      <<S_statement, S_of, S_financial, S_position>> }],
       [section |-> "cash_flow",
        phrases |-> { <<S_consolidated, S_statement, S_of, S_cash, S_flow>>,
                      <<S_consolidated, S_statement, S_of, S_cash, S_flows>>,
                      <<S_cash, S_flow, S_statement>> }],
       [section |-> "kpi",
        phrases |-> { <<S_key, S_metric>>, <<S_key, S_metrics>>,
                      <<S_key, S_performance, S_indicator>>,
                      <<S_key, S_performance, S_indicators>>,
                      <<S_highlight>>, <<S_highlights>>,
                      <<S_financial, S_summary>> }] >>

\* the words of a phrase match from position i on, separated by \s+, and a
\* \b follows the last one
RECURSIVE PhraseFrom(_, _, _)
PhraseFrom(s, i, ws) ==
    LET j == i + Len(ws[1])
    IN  /\ MatchAt(s, i, ws[1])
        /\ IF Len(ws) = 1 THEN Boundary(s, j)
           ELSE j <= Len(s) /\ IsSpace(s[j]) /\ PhraseFrom(s, SkipSpaces(s, j), Tail(ws))

\* re.search(pat, t, flags=re.I) for one phrase of a pattern
SearchPhrase(s, ws) == \E i \in 1..Len(s) : Boundary(s, i) /\ PhraseFrom(s, i, ws)

\* detect_section_label returning the last label that matches
detect_section_label_last(s) ==
    LET t == Lower(s)
        hits == {n \in DOMAIN SECTION_PATTERNS :
                    \E ws \in SECTION_PATTERNS[n].phrases : SearchPhrase(t, ws)}
    IN  IF hits = {} THEN "NULL"
        ELSE SECTION_PATTERNS[CHOOSE n \in hits : \A k \in hits : n >= k].section

detect_section_label(s) ==
    LET t == Lower(s)
        hits == {n \in DOMAIN SECTION_PATTERNS :
                    \E ws \in SECTION_PATTERNS[n].phrases : SearchPhrase(t, ws)}
    IN  IF hits = {} THEN "NULL"
        ELSE SECTION_PATTERNS[CHOOSE n \in hits : \A k \in hits : n <= k].section

-----------------------------------------------------------------------------
(* Unit inference: detect_currency_and_scale                               *)

\* CURRENCY_SYMBOLS, in dict order
CURRENCY_SYMBOLS == <<[sym |-> EURO, code |-> "EUR"], [sym |-> "$", code |-> "USD"],
                      [sym |-> POUND, code |-> "GBP"], [sym |-> YEN, code |-> "JPY"]>>

SymbolChars == {CURRENCY_SYMBOLS[i].sym : i \in DOMAIN CURRENCY_SYMBOLS}

\* CURRENCY_SYMBOLS.get(c)
SymbolCode(c) ==
    IF c \in SymbolChars
    THEN CURRENCY_SYMBOLS[CHOOSE i \in DOMAIN CURRENCY_SYMBOLS : CURRENCY_SYMBOLS[i].sym = c].code
    ELSE "NULL"

\* the scale labels and multipliers: 1e3, 1e6, 1e9 as exact decimals
X1K == [unit |-> "x1k", scale |-> Norm(1, 3)]
X1M == [unit |-> "x1m", scale |-> Norm(1, 6)]
X1B == [unit |-> "x1b", scale |-> Norm(1, 9)]
One == Norm(1, 0)

W_thousand == <<"t", "h", "o", "u", "s", "a", "n", "d">>
W_thousands == W_thousand \o <<"s">>
W_000s == <<"0", "0", "0", "s">>
W_million == <<"m", "i", "l", "l", "i", "o", "n">>
W_millions == W_million \o <<"s">>
W_billion == <<"b", "i", "l", "l", "i", "o", "n">>
W_billions == W_billion \o <<"s">>
W_mn == <<"m", "n">>
W_bn == <<"b", "n">>
W_m == <<"m">>
W_b == <<"b">>
W_k == <<"k">>

\* SCALE_KEYWORDS: (the alternatives of the pattern, label, multiplier)
SCALE_KEYWORDS ==
    << [alts |-> {W_thousands, W_thousand, W_000s, W_k}, to |-> X1K],
       [alts |-> {W_million, W_millions, W_mn, W_m}, to |-> X1M],
       [alts |-> {W_billion, W_billions, W_bn, W_b}, to |-> X1B] >>

\* re.search(r"\bW\b", s, re.I) for a literal word W
SearchWord(s, w) ==
    \E i \in 1..Len(s) : Boundary(s, i) /\ MatchAt(s, i, w) /\ Boundary(s, i + Len(w))

\* re.search(r"\bUS\s*DOLLAR(S)?\b", s, re.I)
SearchUsDollar(s) ==
    \E i \in 1..Len(s) :
        /\ Boundary(s, i) /\ MatchAt(s, i, <<"u", "s">>)
        /\ LET j == SkipSpaces(s, i + 2)
               dollar == <<"d", "o", "l", "l", "a", "r">>
           IN  \/ MatchAt(s, j, dollar) /\ Boundary(s, j + 6)
               \/ MatchAt(s, j, dollar \o <<"s">>) /\ Boundary(s, j + 7)

\* CURRENCY_WORDS, in dict order: does pattern n match s, and its code
CurrencyWordHit(s, n) ==
    CASE n = 1 -> SearchWord(s, <<"e", "u", "r">>)
      [] n = 2 -> SearchWord(s, <<"e", "u", "r", "o">>) \/ SearchWord(s, <<"e", "u", "r", "o", "s">>)
      [] n = 3 -> SearchWord(s, <<"u", "s", "d">>)
      [] n = 4 -> SearchUsDollar(s)
      [] n = 5 -> SearchWord(s, <<"g", "b", "p">>)
      [] n = 6 -> SearchWord(s, <<"p", "o", "u", "n", "d">>) \/ SearchWord(s, <<"p", "o", "u", "n", "d", "s">>)

CURRENCY_WORD_CODES == <<"EUR", "EUR", "USD", "USD", "GBP", "GBP">>

\* "by symbol": the first symbol of the table that occurs in the text
by_symbol(s) ==
    LET hits == {i \in DOMAIN CURRENCY_SYMBOLS : Contains(s, <<CURRENCY_SYMBOLS[i].sym>>)}
    IN  IF hits = {} THEN "NULL"
        ELSE CURRENCY_SYMBOLS[CHOOSE i \in hits : \A k \in hits : i <= k].code

\* "by words", only when no symbol gave a currency
by_words(s, currency) ==
    LET hits == {n \in DOMAIN CURRENCY_WORD_CODES : CurrencyWordHit(s, n)}
    IN  IF currency # "NULL" \/ hits = {} THEN currency
        ELSE CURRENCY_WORD_CODES[CHOOSE n \in hits : \A k \in hits : n <= k]

\* the alternative of alts (tried in order) that matches at j up to a \b
AltAt(s, j, alts) ==
    LET ok == {n \in DOMAIN alts : MatchAt(s, j, alts[n]) /\ Boundary(s, j + Len(alts[n]))}
    IN  IF ok = {} THEN <<>> ELSE alts[CHOOSE n \in ok : \A k \in ok : n <= k]

COMPACT_WORDS == <<W_m, W_mn, W_bn, W_k, W_b>>

\* m2 = re.search(r"([sym])\s*(m|mn|bn|k|b)\b", s, re.I): the leftmost match
CompactMatch(s) ==
    LET at(i) == IF s[i] \in SymbolChars THEN AltAt(s, SkipSpaces(s, i + 1), COMPACT_WORDS)
                 ELSE <<>>
        hits == {i \in 1..Len(s) : at(i) # <<>>}
    IN  IF hits = {} THEN [found |-> FALSE]
        ELSE LET i == CHOOSE i \in hits : \A k \in hits : i <= k
             IN  [found |-> TRUE, sym |-> s[i], word |-> at(i)]

\* the state the steps of detect_currency_and_scale work on
Units(currency, unit_raw, scale) == [currency |-> currency, unit_raw |-> unit_raw, scale |-> scale]

\* "compact patterns (symbol + scale)"
compact(s, u) ==
    LET m2 == CompactMatch(s)
        to == IF m2.word \in {W_m, W_mn} THEN X1M
              ELSE IF m2.word \in {W_bn, W_b} THEN X1B
              ELSE X1K
    IN  IF ~m2.found THEN u
        ELSE Units(IF u.currency = "NULL" THEN SymbolCode(m2.sym) ELSE u.currency,
                   to.unit, to.scale)

CODES == <<"EUR", "USD", "GBP", "JPY">>
CODE_CHARS == << <<"e", "u", "r">>, <<"u", "s", "d">>, <<"g", "b", "p">>, <<"j", "p", "y">> >>
CODE_WORDS == <<W_million, W_millions, W_mn, W_m, W_billion, W_billions, W_bn, W_b,
                W_thousand, W_thousands, W_k>>

\* m3 = re.search(r"\b(EUR|USD|GBP|JPY)\b\s*(million|...|k)\b", s, re.I)
CodeMatch(s) ==
    LET code(i) == {n \in DOMAIN CODES :
                       Boundary(s, i) /\ MatchAt(s, i, CODE_CHARS[n]) /\ Boundary(s, i + 3)}
        at(i) == IF code(i) = {} THEN <<>> ELSE AltAt(s, SkipSpaces(s, i + 3), CODE_WORDS)
        hits == {i \in 1..Len(s) : at(i) # <<>>}
    IN  IF hits = {} THEN [found |-> FALSE]
        ELSE LET i == CHOOSE i \in hits : \A k \in hits : i <= k
             IN  [found |-> TRUE, code |-> CODES[CHOOSE n \in code(i) : TRUE], word |-> at(i)]

\* "word + scale": the loop over SCALE_KEYWORDS, then the direct map when
\* unit_raw is still None
code_scale(s, u) ==
    LET m3 == CodeMatch(s)
        hits == {n \in DOMAIN SCALE_KEYWORDS : m3.word \in SCALE_KEYWORDS[n].alts}
        kw == SCALE_KEYWORDS[CHOOSE n \in hits : \A k \in hits : n <= k].to
        direct == IF m3.word \in {W_million, W_millions, W_mn, W_m} THEN X1M
                  ELSE IF m3.word \in {W_billion, W_billions, W_bn, W_b} THEN X1B
                  ELSE X1K
    IN  IF ~m3.found THEN u
        ELSE IF hits # {} THEN Units(m3.code, kw.unit, kw.scale)
        ELSE IF u.unit_raw = "NULL" THEN Units(m3.code, direct.unit, direct.scale)
        ELSE Units(m3.code, u.unit_raw, u.scale)

contains_currency_symbol(s) == \E i \in DOMAIN s : s[i] \in SymbolChars

\* re.search(r"['<rsquo>]m\b", s, re.I)
SearchQuoteM(s) ==
    \E i \in 1..Len(s) : s[i] \in {"'", RSQUO} /\ MatchAt(s, i + 1, W_m) /\ Boundary(s, i + 2)

\* "picky header"
picky(s, u) ==
    IF contains_currency_symbol(s) /\ SearchQuoteM(s)
    THEN Units(u.currency, X1M.unit, X1M.scale)
    ELSE u

\* detect_currency_and_scale with the picky-header step run before the
\* compact and code patterns instead of after them
detect_picky_first(s) ==
    code_scale(s, compact(s, picky(s, Units(by_words(s, by_symbol(s)), "NULL", One))))

detect_currency_and_scale(s) ==
    picky(s, code_scale(s, compact(s, Units(by_words(s, by_symbol(s)), "NULL", One))))

-----------------------------------------------------------------------------
(* Year-header detection: looks_like_year, find_year_header_map            *)
(* Rows and columns are numbered from 1 here, from 0 in the source.        *)

MIN_YEAR == 1995
MAX_YEAR == 2036

\* a year taken without the range check
InRange_unchecked(y) == <<y>>

\* Optional[int]: <<>> is None, <<y>> is the year y
InRange(y) == IF MIN_YEAR <= y /\ y <= MAX_YEAR THEN <<y>> ELSE <<>>

\* (19|20)\d{2} at position i of s
CenturyYearAt(s, i) ==
    /\ i >= 1 /\ i + 3 <= Len(s)
    /\ SubSeq(s, i, i + 1) \in {<<"1", "9">>, <<"2", "0">>}
    /\ IsDigit(s[i + 2]) /\ IsDigit(s[i + 3])

\* re.search(r"\b(19|20)\d{2}\b", s): the position of the leftmost match, 0 if none
BareYearPos(s) ==
    LET hits == {i \in 1..Len(s) :
                    Boundary(s, i) /\ CenturyYearAt(s, i) /\ Boundary(s, i + 4)}
    IN  IF hits = {} THEN 0 ELSE CHOOSE i \in hits : \A k \in hits : i <= k

\* re.search(r"FY\s*(\d{2})\s*/\s*(\d{2})", s, re.I): group 2 of the
\* leftmost match, <<>> if none
FiscalYearMatch(s) ==
    LET two(j) == j + 1 <= Len(s) /\ IsDigit(s[j]) /\ IsDigit(s[j + 1])
        a(i) == SkipSpaces(s, i + 2)
        slash(i) == SkipSpaces(s, a(i) + 2)
        b(i) == SkipSpaces(s, slash(i) + 1)
        ok(i) == /\ MatchAt(s, i, <<"f", "y">>)
                 /\ two(a(i))
                 /\ slash(i) <= Len(s) /\ s[slash(i)] = "/"
                 /\ two(b(i))
        hits == {i \in 1..Len(s) : ok(i)}
    IN  IF hits = {} THEN <<>>
        ELSE LET i == CHOOSE i \in hits : \A k \in hits : i <= k
             IN  SubSeq(s, b(i), b(i) + 1)

looks_like_year(token) ==
    LET tok == StripChars(StripChars(token, {" ", NBSP}), {"'", RSQUO})
        fy == FiscalYearMatch(tok)
        p == BareYearPos(tok)
    IN  IF Len(tok) = 4 /\ CenturyYearAt(tok, 1) THEN InRange(DigitsValue(tok))
        ELSE IF fy # <<>> THEN InRange(DigitsValue(<<"2", "0">> \o fy))
        ELSE IF p # 0 THEN InRange(DigitsValue(SubSeq(tok, p, p + 3)))
        ELSE <<>>

\* the characters re.split(r"[^\w'\-]+", cell) does not split on
IsTokenChar(c) == IsWord(c) \/ c \in {"'", "-"}

\* re.split(r"[^\w'\-]+", s): the pieces between the runs of separators,
\* the empty pieces at the ends included
RECURSIVE SplitTokens(_)
SplitTokens(s) ==
    LET seps == {i \in DOMAIN s : ~IsTokenChar(s[i])}
    IN  IF seps = {} THEN <<s>>
        ELSE LET i == CHOOSE i \in seps : \A k \in seps : i <= k
                 rest == LStrip(SubSeq(s, i, Len(s)), {c \in Range(s) : ~IsTokenChar(c)})
             IN  <<SubSeq(s, 1, i - 1)>> \o SplitTokens(rest)

\* the inner loop of find_year_header_map: the year of the first token of
\* the cell that looks like a year
CellYear(cell) ==
    LET tokens == SplitTokens(normalize_text(cell))
        hits == {n \in DOMAIN tokens : looks_like_year(tokens[n]) # <<>>}
    IN  IF hits = {} THEN <<>>
        ELSE looks_like_year(tokens[CHOOSE n \in hits : \A k \in hits : n <= k])

\* the dict years of one row: column -> year, for the cells that carry one
RowYears(row) ==
    [j \in {j \in DOMAIN row : CellYear(row[j]) # <<>>} |-> CellYear(row[j])[1]]

\* how many (column, year) entries a row needs to be the header
MIN_HEADER_YEARS == 2

Header(i, years) == [header_idx |-> i, col2year |-> years]

\* find_year_header_map accepting a row with a single year cell
find_year_header_map_one(grid) ==
    LET hits == {i \in DOMAIN grid : Cardinality(DOMAIN RowYears(grid[i])) >= 1}
    IN  IF hits = {} THEN Header(<<>>, <<>>)
        ELSE LET i == CHOOSE i \in hits : \A k \in hits : i <= k
             IN  Header(<<i>>, RowYears(grid[i]))

find_year_header_map(grid) ==
    LET hits == {i \in DOMAIN grid :
                    Cardinality(DOMAIN RowYears(grid[i])) >= MIN_HEADER_YEARS}
    IN  IF hits = {} THEN Header(<<>>, <<>>)
        ELSE LET i == CHOOSE i \in hits : \A k \in hits : i <= k
             IN  Header(<<i>>, RowYears(grid[i]))

-----------------------------------------------------------------------------
(* The fact store: table financial_facts, unique index u_facts,            *)
(* INSERT OR REPLACE.  Column created_at is left out.                       *)

Fact(company, fy, section, metric, value, currency, unit_raw, scale_applied, page_no, source_type, confidence) ==
    [company |-> company, fiscal_year |-> fy, section |-> section, metric |-> metric,
     value |-> value, currency |-> currency, unit_raw |-> unit_raw,
     scale_applied |-> scale_applied, source_page |-> page_no,
     source_type |-> source_type, confidence |-> confidence]

FACT_COLUMNS == {"company", "fiscal_year", "section", "metric", "value", "currency",
                 "unit_raw", "scale_applied", "source_page", "source_type", "confidence"}

\* the columns of CREATE UNIQUE INDEX u_facts
U_FACTS == {"company", "fiscal_year", "section", "metric", "source_page", "source_type"}

\* the value bound to column c is SQL NULL (Python None); only fiscal_year
\* (Optional[int]) and section (Optional[str]) of the index columns can be
IsNullAt(f, c) ==
    \/ c = "fiscal_year" /\ f[c] = <<>>
    \/ c = "section" /\ f[c] = "NULL"

\* row r and the new row f collide on u_facts: every indexed column is
\* equal and not NULL (SQLite treats the NULLs of a unique index as distinct)
IndexConflict(r, f) == \A c \in U_FACTS : ~IsNullAt(f, c) /\ r[c] = f[c]

DB(rows, n) == [store |-> rows, seq |-> n]

\* a plain INSERT: no row is replaced
insert_no_replace(db, f) ==
    DB(Append(db.store, [id |-> db.seq + 1] @@ f), db.seq + 1)

\* an INSERT OR REPLACE whose unique index leaves out source_page
insert_fact_any_page(db, f) ==
    DB(Append(SelectSeq(db.store,
                        LAMBDA r : ~(\A c \in U_FACTS \ {"source_page"} :
                                        ~IsNullAt(f, c) /\ r[c] = f[c])),
              [id |-> db.seq + 1] @@ f),
       db.seq + 1)

\* INSERT OR REPLACE: the colliding rows are deleted, the new row gets the
\* next AUTOINCREMENT id and goes to the end of the rowid order
insert_fact(db, f) ==
    DB(Append(SelectSeq(db.store, LAMBDA r : ~IndexConflict(r, f)),
              [id |-> db.seq + 1] @@ f),
       db.seq + 1)

\* the fact a row stores: the row without its id
Fields(r) == [c \in FACT_COLUMNS |-> r[c]]
Content(rows) == [i \in DOMAIN rows |-> Fields(rows[i])]

-----------------------------------------------------------------------------
(* Fact assembly: numeric_density, parse_table                             *)

HasDigit(cell) == \E i \in DOMAIN cell : IsDigit(cell[i])

\* a gate that lets every grid through
density_gate_open(grid) == FALSE

\* numeric_density(df) < 0.12, in integers: cnt / size < 12 / 100
DensityBelowGate(grid) ==
    LET size == IF grid = <<>> THEN 0 ELSE Len(grid) * Len(grid[1])
        cnt == Cardinality({ij \in (DOMAIN grid) \X (1..(IF grid = <<>> THEN 0 ELSE Len(grid[1]))) :
                               HasDigit(grid[ij[1]][ij[2]])})
    IN  size = 0 \/ cnt * 100 < 12 * size

\* the text of the first (at most 3) rows, cells and rows joined by a space
head_text(grid) ==
    Join(<<" ">>, [i \in 1..(IF Len(grid) < 3 THEN Len(grid) ELSE 3) |-> Join(<<" ">>, grid[i])])

\* Python `a or b` on Optional[str]
OrStr(a, b) == IF a # "NULL" /\ a # "" THEN a ELSE b

\* Python `a or b` on floats: a is falsy only when it is 0.0
OrFloat(a, b) == IF a.m # 0 THEN a ELSE b

\* `a or b`, field by field, of a table cue h and a page cue p
or_units(h, p) ==
    Units(OrStr(h.currency, p.currency),
          OrStr(h.unit_raw, p.unit_raw),
          OrFloat(h.scale, OrFloat(p.scale, One)))

\* currency, unit_raw and scale_applied of parse_table: the table cue `or`
\* the page cue
resolve_units(grid, page_text) ==
    or_units(detect_currency_and_scale(head_text(grid)), detect_currency_and_scale(page_text))

\* val * scale_applied
Mul(a, b) == Norm(a.m * b.m, a.x + b.x)

RECURSIVE SortedSeq(_)
SortedSeq(S) ==
    IF S = {} THEN <<>>
    ELSE LET lo == CHOOSE a \in S : \A b \in S : a <= b
         IN  <<lo>> \o SortedSeq(S \ {lo})

\* the metric label of a row
metric_of(row) == Lower(normalize_text(row[1]))

\* a multi-year path that reads only the lowest year column of a row
multi_year_row_one_column(row, col2year, pg, section, u) ==
    LET j == CHOOSE j \in DOMAIN col2year : \A k \in DOMAIN col2year : j <= k
    IN  IF metric_of(row) \in {<<>>, <<"-">>, <<EMDASH>>} \/ j > Len(row) \/ clean_numeric(row[j]) = None
        THEN <<>>
        ELSE << Fact(pg.company, <<col2year[j]>>, section, metric_of(row),
                     Mul(clean_numeric(row[j]), u.scale), u.currency, u.unit_raw,
                     u.scale, pg.page_no, pg.source_type, One) >>

\* a multi-year path that stores a cell that does not parse as zero
multi_year_row_null_as_zero(row, col2year, pg, section, u) ==
    LET cols == SelectSeq(SortedSeq(DOMAIN col2year), LAMBDA j : j <= Len(row))
    IN  IF metric_of(row) \in {<<>>, <<"-">>, <<EMDASH>>} THEN <<>>
        ELSE [n \in DOMAIN cols |->
                 Fact(pg.company, <<col2year[cols[n]]>>, section, metric_of(row),
                      IF clean_numeric(row[cols[n]]) = None THEN Norm(0, 0)
                      ELSE Mul(clean_numeric(row[cols[n]]), u.scale),
                      u.currency, u.unit_raw, u.scale, pg.page_no, pg.source_type, One)]

\* "1) Multi-year": the facts of one data row, one per year column whose
\* cell parses, in column order
multi_year_row(row, col2year, pg, section, u) ==
    LET cols == SelectSeq(SortedSeq(DOMAIN col2year),
                          LAMBDA j : j <= Len(row) /\ clean_numeric(row[j]) # None)
    IN  IF metric_of(row) \in {<<>>, <<"-">>, <<EMDASH>>} THEN <<>>
        ELSE [n \in DOMAIN cols |->
                 Fact(pg.company, <<col2year[cols[n]]>>, section, metric_of(row),
                      Mul(clean_numeric(row[cols[n]]), u.scale), u.currency, u.unit_raw,
                      u.scale, pg.page_no, pg.source_type, One)]

\* the year of the fallback path that ignores the page text
fallback_year_default_only(default_year, page_text) == default_year

\* "year fallback": the default year, else the first bare year of the page
\* text when it is in range
fallback_year(default_year, page_text) ==
    LET p == BareYearPos(page_text)
    IN  IF default_year = <<>> /\ p # 0
        THEN InRange(DigitsValue(SubSeq(page_text, p, p + 3)))
        ELSE default_year

\* a fallback that keeps the last cell after column 0 that parses
fallback_row_last_hit(row, pg, section, u) ==
    LET hits == {j \in 2..Len(row) : clean_numeric(row[j]) # None}
        j == CHOOSE j \in hits : \A k \in hits : j >= k
    IN  IF metric_of(row) = <<>> \/ hits = {} THEN <<>>
        ELSE << Fact(pg.company, fallback_year(pg.default_year, pg.page_text), section,
                     metric_of(row), Mul(clean_numeric(row[j]), u.scale), u.currency,
                     u.unit_raw, u.scale, pg.page_no, pg.source_type, One) >>

\* "2) Fallback": the fact of one row, from the first cell after column 0
\* that parses
fallback_row(row, pg, section, u) ==
    LET hits == {j \in 2..Len(row) : clean_numeric(row[j]) # None}
        j == CHOOSE j \in hits : \A k \in hits : j <= k
    IN  IF metric_of(row) = <<>> \/ hits = {} THEN <<>>
        ELSE << Fact(pg.company, fallback_year(pg.default_year, pg.page_text), section,
                     metric_of(row), Mul(clean_numeric(row[j]), u.scale), u.currency,
                     u.unit_raw, u.scale, pg.page_no, pg.source_type, One) >>

\* the rows parse_table turns into facts, given the header map, the section
\* and the units it resolved
table_rows(grid, pg, hdr, section, u) ==
    IF hdr.header_idx = <<>> /\ DensityBelowGate(grid) THEN <<>>
    ELSE IF hdr.header_idx # <<>> /\ Cardinality(DOMAIN hdr.col2year) >= 2
    THEN Concat([i \in 1..(Len(grid) - hdr.header_idx[1]) |->
                    multi_year_row(grid[hdr.header_idx[1] + i], hdr.col2year, pg, section, u)])
    ELSE Concat([i \in DOMAIN grid |-> fallback_row(grid[i], pg, section, u)])

\* the insert_fact calls parse_table makes, in order
parse_table_facts(grid, pg) ==
    table_rows(grid, pg, find_year_header_map(grid),
               OrStr(pg.section_hint, detect_section_label(pg.page_text)),
               resolve_units(grid, pg.page_text))

RECURSIVE InsertAll(_, _)
InsertAll(db, facts) ==
    IF facts = <<>> THEN db ELSE InsertAll(insert_fact(db, Head(facts)), Tail(facts))

parse_table(db, grid, pg) == InsertAll(db, parse_table_facts(grid, pg))

-----------------------------------------------------------------------------
(* Bounded inputs                                                          *)

MaxCellLen == 4
MaxLitLen == 5

CellAlphabet == {"1", "0", ",", ".", "-", "(", ")", " ", "x"}
LitAlphabet == {"1", "0", ",", "."}

RECURSIVE StringsUpTo(_, _)
StringsUpTo(A, n) ==
    IF n = 0 THEN {<<>>}
    ELSE LET shorter == StringsUpTo(A, n - 1)
         IN  shorter \cup {Append(s, c) : s \in {t \in shorter : Len(t) = n - 1}, c \in A}

\* cells of the kinds the reports contain, beyond the exhaustive short ones
NamedCells ==
    { <<"(", "1", ",", "2", "3", "4", ".", "5", ")">>,
      <<"1", ",", "2", "0", "0">>,
      <<"(", "8", "0", ")">>,
      <<"(", "-", "8", "0", ")">>,
      <<"1", "-", "2">>,
      <<"1", "2", "-">>,
      <<"1", ".", "2", "3", "4", ".", "5">>,
      <<ENDASH>>, <<EMDASH>>, <<" ", ENDASH, NBSP>>,
      <<EURO, "1", "5">>,
      <<"n", "/", "a">> }

MaxAtoms == 3

T_euro_quote_m == <<EURO, "'", "m">>
T_dollar_rsquo_M == <<"$", RSQUO, "M">>
T_dollar_bn == <<"$", "b", "n">>
T_EUR_thousand == <<"E", "U", "R", " ">> \o W_thousand
T_usd_million == <<"u", "s", "d", NBSP>> \o W_million

\* the pieces the texts of unit captions are put together from: single
\* characters and whole cues
UnitAtoms ==
    { <<" ">>, <<EURO>>, <<"'">>, <<"m">>, <<"n">>, <<"k">>, W_thousand,
      T_euro_quote_m, T_dollar_rsquo_M, T_dollar_bn, T_EUR_thousand, T_usd_million }

\* every concatenation of at most n atoms
RECURSIVE TextsUpTo(_, _)
TextsUpTo(A, n) ==
    IF n = 0 THEN {<<>>}
    ELSE LET shorter == TextsUpTo(A, n - 1)
         IN  shorter \cup {t \o a : t \in shorter, a \in A}

\* the words of the scale-word map
ScaleWords ==
    {W_thousand, W_thousands, W_000s, W_k, W_million, W_millions, W_mn, W_m,
     W_billion, W_billions, W_bn, W_b}

\* a currency symbol followed by a scale word, with or without a space
SymbolWordTexts ==
    {<<c>> \o sep \o w : c \in SymbolChars, sep \in {<<>>, <<" ">>}, w \in ScaleWords}

UnitTexts == TextsUpTo(UnitAtoms, MaxAtoms) \cup SymbolWordTexts

MaxGridCells == 4

C_2024 == <<"2", "0", "2", "4">>
C_2023 == <<"2", "0", "2", "3">>
C_1990 == <<"1", "9", "9", "0">>
C_2023_2024 == C_2023 \o <<" ">> \o C_2024
C_FY_24_25 == <<"F", "Y", " ", "2", "4", "/", "2", "5">>
C_FY_23_24 == <<"F", "Y", " ", "2", "3", "/", "2", "4">>
C_Mar_31_2025 == <<"M", "a", "r", " ", "3", "1", ",", " ", "2", "0", "2", "5">>

\* header cells: empty, bare years, two years in one cell, fiscal-year
\* notation, a date
YearCells == {<<>>, C_2024, C_2023, C_2023_2024, C_FY_24_25, C_FY_23_24, C_Mar_31_2025}

\* every rectangular grid of at most n cells over the given cells
GridsUpTo(cells, n) ==
    UNION {[1..r -> [1..c -> cells]] : <<r, c>> \in {rc \in (1..n) \X (1..n) : rc[1] * rc[2] <= n}}

YearGrids == GridsUpTo(YearCells, MaxGridCells)

MaxInserts == 3
MaxRuns == 2
MaxTableCells == 3

M_revenue == <<"r", "e", "v", "e", "n", "u", "e">>
M_net_profit == <<"n", "e", "t", " ", "p", "r", "o", "f", "i", "t">>

\* the facts handed to insert_fact directly: two years (one unknown), two
\* sections (one unknown), two pages, two values
StoreFacts ==
    {Fact("Acme", fy, section, M_revenue, v, "EUR", "NULL", One, page_no, "camelot_text", One) :
        fy \in {<<>>, <<2024>>}, section \in {"NULL", "kpi"},
        v \in {Norm(1, 0), Norm(2, 0)}, page_no \in {3, 4}}

C_Revenue == <<"R", "e", "v", "e", "n", "u", "e">>
C_Net_profit == <<"N", "e", "t", " ", "p", "r", "o", "f", "i", "t">>
C_1200 == <<"1", ",", "2", "0", "0">>
C_1050 == <<"1", ",", "0", "5", "0">>
C_paren_80 == <<"(", "8", "0", ")">>
C_95 == <<"9", "5">>
C_Rev == <<"R", "e", "v">>
C_USD_million == <<"U", "S", "D", " ", "m", "i", "l", "l", "i", "o", "n">>
C_dollar_bn == <<"$", "b", "n">>

G_EndToEnd == << <<<<>>, C_2024, C_2023>>,
                 <<C_Revenue, C_1200, C_1050>>,
                 <<C_Net_profit, C_paren_80, C_95>> >>
G_Fallback == << <<C_Revenue, C_1200>>, <<C_Net_profit, C_paren_80>> >>
G_TableUnits == << <<C_USD_million, C_2024, C_2023>>, <<C_Revenue, C_1200, C_1050>> >>
G_FallbackUnits == << <<C_dollar_bn, <<>> >>, <<C_Revenue, C_1200>> >>
G_SameYear == << <<C_2024, C_2024>>, <<C_Rev, C_paren_80>> >>
G_MultiYear == << <<C_Rev, C_paren_80, C_95>>,
                  <<<<>>, C_2024, C_2023>>,
                  <<C_Rev, C_paren_80, <<>>>>,
                  <<<<>>, C_95, C_95>>,
                  <<<<"-">>, C_95, C_1200>>,
                  <<C_Net_profit, <<"x">>, C_1050>> >>
G_OldYear == << <<<<>>, C_1990, C_2024, C_2023>>,
                <<C_Rev, C_95, C_paren_80, C_95>> >>
G_Sparse == << <<C_Rev, <<>>, <<>>, <<>>, <<>>, <<>>, <<>>, <<>>, C_95>> >>

TableCells == {<<>>, C_Rev, C_paren_80, C_2024}

TableGrids ==
    GridsUpTo(TableCells, MaxTableCells)
        \cup {G_EndToEnd, G_Fallback, G_TableUnits, G_FallbackUnits, G_SameYear, G_Sparse,
              G_MultiYear, G_OldYear}

PT_none == <<>>
PT_euro_m == <<"i", "n", " ", EURO, "m">>
PT_FY2022 == <<"F", "Y", "2", "0", "2", "2">>
PT_FY_2022 == <<"F", "Y", " ", "2", "0", "2", "2">>
PT_EUR_thousand == <<"b", "a", "l", "a", "n", "c", "e", " ", "s", "h", "e", "e", "t", " ", "E", "U", "R", " ", "t", "h", "o", "u", "s", "a", "n", "d">>
PT_1990_2024 == <<"k", "e", "y", " ", "m", "e", "t", "r", "i", "c", "s", " ", "1", "9", "9", "0", " ", "2", "0", "2", "4">>

PageTexts == {PT_none, PT_euro_m, PT_FY2022, PT_FY_2022, PT_EUR_thousand, PT_1990_2024}

\* the page contexts: extract_from_pdf passes detect_section_label(page_text)
\* as section_hint
Pages ==
    {[company |-> "Acme", default_year |-> dy, page_no |-> 3, page_text |-> pt,
      source_type |-> "camelot_text", section_hint |-> detect_section_label(pt)] :
        dy \in {<<>>, <<2021>>, <<1990>>}, pt \in PageTexts}

RawCells ==
    StringsUpTo(CellAlphabet, MaxCellLen)
        \cup {<<"(">> \o d \o <<")">> : d \in StringsUpTo(LitAlphabet, MaxLitLen)}
        \cup NamedCells

-----------------------------------------------------------------------------
(* Defaults of the variables a specification does not use                  *)

NoPage == [company |-> "", default_year |-> <<>>, page_no |-> 0, page_text |-> <<>>,
           source_type |-> "", section_hint |-> "NULL"]
NoUnits == Units("NULL", "NULL", One)
NoHeader == Header(<<>>, <<>>)

StoreIdle == store = <<>> /\ seq = 0 /\ latest = <<>>
TableIdle == df = <<>> /\ page = NoPage /\ runs = 0 /\ first = <<>>
NumericIdle == raw = <<>> /\ val = None
UnitsIdle == text = <<>> /\ units = NoUnits
HeaderIdle == header = NoHeader
SectionIdle == label = "NULL"
RunIdle ==
    /\ pdfs = <<>> /\ pos = [d |-> 0, p |-> 0, t |-> 0]
    /\ committed = <<>> /\ log = <<>> /\ long = <<>> /\ wide = {}

-----------------------------------------------------------------------------
(* SpecNumeric: clean_numeric applied to one cell                          *)

InitNumeric ==
    /\ pc = "start"
    /\ raw \in RawCells
    /\ val = None
    /\ StoreIdle /\ TableIdle /\ UnitsIdle /\ HeaderIdle /\ SectionIdle /\ RunIdle

CleanNumeric ==
    /\ pc = "start"
    /\ val' = clean_numeric(raw)
    /\ pc' = "done"
    /\ UNCHANGED <<store, seq, latest, df, page, runs, first, raw, text, units, header>>
    /\ UNCHANGED <<label, pdfs, pos, committed, log, long, wide>>

NextNumeric == CleanNumeric

SpecNumeric == InitNumeric /\ [][NextNumeric]_vars

\* d is an unsigned numeric literal: digits, thousands commas, at most one
\* decimal period, at least one digit
IsUnsignedLiteral(d) ==
    /\ \A i \in DOMAIN d : IsDigit(d[i]) \/ d[i] \in {",", "."}
    /\ Count(d, ".") <= 1
    /\ \E i \in DOMAIN d : IsDigit(d[i])

\* the number an unsigned literal denotes: the digits before the period are
\* the integer part, the digits after it the fraction, commas group digits
LiteralValue(d) ==
    LET digitsBefore(n) == Cardinality({i \in 1..n : IsDigit(d[i])})
        dotAt == IF Count(d, ".") = 0 THEN Len(d) + 1
                 ELSE CHOOSE i \in DOMAIN d : d[i] = "."
        ds == SelectSeq(d, IsDigit)
        nfrac == Len(ds) - digitsBefore(dotAt - 1)
    IN  Norm(DigitsValue(ds), 0 - nfrac)

\* C7: a parenthesised unsigned literal parses to minus its value, and an
\* empty cell or a cell that is a sole dash, en-dash or em-dash parses to
\* None (no value), never to zero.
C7_ParenthesesNegateDashIsNone ==
    pc = "done" =>
        /\ (Parenthesised(raw) /\ IsUnsignedLiteral(SubSeq(raw, 2, Len(raw) - 1)))
               => val = Neg(LiteralValue(SubSeq(raw, 2, Len(raw) - 1)))
        /\ raw \in {<<>>, <<"-">>, <<ENDASH>>, <<EMDASH>>} => val = None

C7_Witness ==
    /\ pc = "done"
    /\ raw = <<"(", "1", ",", "2", "3", "4", ".", "5", ")">>
    /\ val = [kind |-> "float", m |-> 0 - 12345, x |-> 0 - 1]

\* C8: clean_numeric returns a float or None for every cell and never lets
\* the ValueError of float() escape; a residual string that is no number
\* gives None.
C8_CleanNumericTotal ==
    pc = "done" =>
        /\ val.kind \in {"float", "None"}
        /\ float(residual(normalize_text(raw))) = ValueError => val = None

C8_Witness ==
    /\ pc = "done"
    /\ raw = <<"1", "-", "2">>
    /\ float(residual(normalize_text(raw))) = ValueError
    /\ val = None

-----------------------------------------------------------------------------
(* SpecUnits: detect_currency_and_scale applied to one text                *)

InitUnits ==
    /\ pc = "start"
    /\ text \in UnitTexts
    /\ units = NoUnits
    /\ StoreIdle /\ TableIdle /\ NumericIdle /\ HeaderIdle /\ SectionIdle /\ RunIdle

DetectUnits ==
    /\ pc = "start"
    /\ units' = detect_currency_and_scale(text)
    /\ pc' = "done"
    /\ UNCHANGED <<store, seq, latest, df, page, runs, first, raw, val, text, header>>
    /\ UNCHANGED <<label, pdfs, pos, committed, log, long, wide>>

NextUnits == DetectUnits

SpecUnits == InitUnits /\ [][NextUnits]_vars

\* a quote-prefixed scale marker: a currency symbol, a quote (straight or
\* typographic) and the word m
HasQuoteMarker(s) ==
    \E i \in 1..Len(s) :
        /\ s[i] \in SymbolChars
        /\ i + 2 <= Len(s)
        /\ s[i + 1] \in {"'", RSQUO}
        /\ LowerChar(s[i + 2]) = "m"
        /\ ~WordAt(s, i + 3)

\* C9: a text that contains a quote-prefixed scale marker resolves to the
\* multiplier 1,000,000 with label x1m, whatever other scale evidence (a
\* compact pattern, a code pattern, a scale word) the text contains.
C9_QuoteMarkerForcesMillions ==
    (pc = "done" /\ HasQuoteMarker(text)) =>
        units.scale = Norm(1, 6) /\ units.unit_raw = "x1m"

C9_Witness ==
    /\ pc = "done"
    /\ text = T_euro_quote_m \o <<" ">> \o T_EUR_thousand
    /\ CodeMatch(text).found /\ CodeMatch(text).word = W_thousand
    /\ units = Units("EUR", "x1m", Norm(1, 6))

-----------------------------------------------------------------------------
(* SpecYears: find_year_header_map applied to one grid                     *)

InitYears ==
    /\ pc = "start"
    /\ df \in YearGrids
    /\ header = NoHeader
    /\ page = NoPage /\ runs = 0 /\ first = <<>>
    /\ StoreIdle /\ NumericIdle /\ UnitsIdle /\ SectionIdle /\ RunIdle

FindYearHeader ==
    /\ pc = "start"
    /\ header' = find_year_header_map(df)
    /\ pc' = "done"
    /\ UNCHANGED <<store, seq, latest, df, page, runs, first, raw, val, text, units>>
    /\ UNCHANGED <<label, pdfs, pos, committed, log, long, wide>>

NextYears == FindYearHeader

SpecYears == InitYears /\ [][NextYears]_vars

\* the year tokens of a grid: (row, column, token number, year) for every
\* token of every cell that looks_like_year resolves to a year
YearTokens(grid) ==
    {<<i, j, n, looks_like_year(SplitTokens(normalize_text(grid[i][j]))[n])[1]>> :
        <<i, j, n>> \in
            {t \in UNION {UNION {{<<i, j, n>> :
                                    n \in DOMAIN SplitTokens(normalize_text(grid[i][j]))} :
                                 j \in DOMAIN grid[i]} : i \in DOMAIN grid} :
                looks_like_year(SplitTokens(normalize_text(grid[t[1]][t[2]]))[t[3]]) # <<>>}}

-----------------------------------------------------------------------------
(* Spec: any sequence of insert_fact calls on the store                    *)

Init ==
    /\ pc = "store"
    /\ StoreIdle /\ TableIdle /\ NumericIdle /\ UnitsIdle /\ HeaderIdle /\ SectionIdle /\ RunIdle

InsertFact(f) ==
    /\ Len(latest) < MaxInserts
    /\ LET db == insert_fact(DB(store, seq), f)
       IN  store' = db.store /\ seq' = db.seq
    /\ latest' = Append(latest, f)
    /\ UNCHANGED <<df, page, runs, first, raw, val, text, units, header, pc>>
    /\ UNCHANGED <<label, pdfs, pos, committed, log, long, wide>>

Next == \E f \in StoreFacts : InsertFact(f)

Spec == Init /\ [][Next]_vars

-----------------------------------------------------------------------------
(* SpecTable: parse_table run on one grid of one page, then run again      *)

InitTable ==
    /\ pc = "table"
    /\ df \in TableGrids
    /\ page \in Pages
    /\ runs = 0 /\ first = <<>>
    /\ StoreIdle /\ NumericIdle /\ UnitsIdle /\ HeaderIdle /\ SectionIdle /\ RunIdle

ParseTable ==
    /\ runs < MaxRuns
    /\ \E facts \in {parse_table_facts(df, page)} :
           \E db \in {InsertAll(DB(store, seq), facts)} :
               /\ store' = db.store
               /\ seq' = db.seq
               /\ latest' = latest \o facts
    /\ runs' = runs + 1
    /\ first' = IF runs = 0 THEN Content(store') ELSE first
    /\ UNCHANGED <<df, page, raw, val, text, units, header, pc>>
    /\ UNCHANGED <<label, pdfs, pos, committed, log, long, wide>>

NextTable == ParseTable

SpecTable == InitTable /\ [][NextTable]_vars

\* the identity tuple of a fact; two unknown (None) years or sections are equal
IdentityKey(f) ==
    <<f.company, f.fiscal_year, f.section, f.metric, f.source_page, f.source_type>>

\* two contents hold the same facts the same number of times
SameContent(a, b) ==
    /\ Len(a) = Len(b)
    /\ \A f \in Range(a) \cup Range(b) :
           Cardinality({i \in DOMAIN a : a[i] = f}) = Cardinality({i \in DOMAIN b : b[i] = f})

\* C1: assembling the same grid of the same page twice and upserting all its
\* facts leaves the store with the same facts as doing it once, whatever
\* fiscal_year and section are (both may be None).
C1_ReprocessingIdempotent ==
    runs >= 2 => SameContent(Content(store), first)

\* C2: no two stored facts share the identity tuple (company, fiscal_year,
\* section, metric, source_page, source_type), None counting as equal to None.
C2_IdentityUnique ==
    \A i, j \in DOMAIN store :
        i # j => IdentityKey(store[i]) # IdentityKey(store[j])

\* C3: for every identity key upserted so far the store holds the fields of
\* the most recent upsert with that key, and no earlier fact of that key.
C3_LastWriteWins ==
    \A n \in DOMAIN latest :
        LET k == IdentityKey(latest[n])
            last == CHOOSE i \in DOMAIN latest :
                        /\ IdentityKey(latest[i]) = k
                        /\ \A j \in DOMAIN latest : IdentityKey(latest[j]) = k => j <= i
        IN  /\ \E r \in Range(store) : IdentityKey(r) = k
            /\ \A r \in Range(store) : IdentityKey(r) = k => Fields(r) = latest[last]

PG_EndToEnd ==
    [company |-> "Acme", default_year |-> <<>>, page_no |-> 3, page_text |-> PT_euro_m,
     source_type |-> "camelot_text", section_hint |-> "NULL"]

\* C4: for the end-to-end grid on page 3 of Acme with page text holding the
\* only unit cue, the fact of (2024, revenue) is stored with value
\* 1,200,000,000 and the fact of (2024, net profit) with -80,000,000.
C4_EndToEndValues ==
    (runs >= 1 /\ df = G_EndToEnd /\ page = PG_EndToEnd) =>
        /\ \E r \in Range(store) :
               /\ r.fiscal_year = <<2024>> /\ r.metric = M_revenue
               /\ r.value = Norm(1200, 6)
        /\ \E r \in Range(store) :
               /\ r.fiscal_year = <<2024>> /\ r.metric = M_net_profit
               /\ r.value = Norm(0 - 80, 6)

\* the fallback path ran on a grid that holds no year token: there is no
\* year header and the density gate let the grid through
FallbackOnYearlessGrid ==
    /\ runs >= 1
    /\ YearTokens(df) = {}
    /\ ~DensityBelowGate(df)

\* C5 as stated: in the fallback path with no default year, a page text
\* containing "FY2022" gives every emitted fact fiscal_year 2022.
C5_Original ==
    (FallbackOnYearlessGrid /\ page.default_year = <<>>
        /\ Contains(page.page_text, <<"F", "Y", "2", "0", "2", "2">>))
    => \A n \in DOMAIN latest : latest[n].fiscal_year = <<2022>>

\* the first bare 4-digit year of a text (a (19|20)dd number with no word
\* character on either side) is y
FirstBareYearIs(s, y) ==
    /\ BareYearPos(s) # 0
    /\ DigitsValue(SubSeq(s, BareYearPos(s), BareYearPos(s) + 3)) = y

\* C5 (amended): in the fallback path with no default year, a page text
\* whose first bare 4-digit year is 2022, as in "FY 2022", gives every
\* emitted fact fiscal_year 2022.
C5_FallbackYearFromPageText ==
    (FallbackOnYearlessGrid /\ page.default_year = <<>>
        /\ Contains(page.page_text, <<"2", "0", "2", "2">>)
        /\ FirstBareYearIs(page.page_text, 2022))
    => \A n \in DOMAIN latest : latest[n].fiscal_year = <<2022>>

C5_Witness ==
    /\ runs = 1
    /\ df = G_Fallback
    /\ page.default_year = <<>> /\ page.page_text = PT_FY_2022
    /\ Len(latest) = 2
    /\ \A n \in DOMAIN latest : latest[n].fiscal_year = <<2022>>

\* C6: the scale applied to the facts of a grid is the one of the grid's
\* first rows when they carry scale evidence, else the one of the page text
\* when it carries scale evidence, else 1.0; the currency is resolved the
\* same way, independently of the scale.
C6_TableOverPageFieldByField ==
    LET h == detect_currency_and_scale(head_text(df))
        p == detect_currency_and_scale(page.page_text)
    IN  \A n \in DOMAIN latest :
            /\ latest[n].scale_applied =
                   IF h.unit_raw # "NULL" THEN h.scale
                   ELSE IF p.unit_raw # "NULL" THEN p.scale
                   ELSE One
            /\ latest[n].currency =
                   IF h.currency # "NULL" THEN h.currency ELSE p.currency

-----------------------------------------------------------------------------
(* Year header: distinct years and fiscal-year notation                    *)

\* the fiscal years a header map names
HeaderYears(h) == {h.col2year[j] : j \in DOMAIN h.col2year}

\* C11: a header map that find_year_header_map returns names at least two
\* distinct fiscal years; a row whose year cells all name the same year is
\* never the header.
C11_HeaderHasDistinctYears ==
    (pc = "done" /\ header.header_idx # <<>>) => Cardinality(HeaderYears(header)) >= 2

\* C12: a row whose cells are "FY 23/24" and "FY 24/25" is returned as the
\* header, its columns mapped to 2024 and 2025.
C12_FiscalYearNotationHeader ==
    (pc = "done" /\ df = << <<C_FY_23_24, C_FY_24_25>> >>)
        => header = Header(<<1>>, <<2024, 2025>>)

-----------------------------------------------------------------------------
(* Numeric-density gate                                                    *)

\* the cells of a grid, as (row, column) pairs, and those that hold a digit
CellsOf(grid) == UNION {{<<i, j>> : j \in DOMAIN grid[i]} : i \in DOMAIN grid}
DigitCells(grid) == {c \in CellsOf(grid) : \E k \in DOMAIN grid[c[1]][c[2]] : IsDigit(grid[c[1]][c[2]][k])}

\* fewer than 12% of the cells of the grid hold a digit
SparseGrid(grid) == 100 * Cardinality(DigitCells(grid)) < 12 * Cardinality(CellsOf(grid))

\* C13: a grid with no year header in which fewer than 12% of the cells
\* hold a digit yields no fact and leaves the store as it was (empty).
C13_DensityGate ==
    (runs >= 1 /\ find_year_header_map(df).header_idx = <<>> /\ SparseGrid(df))
        => latest = <<>> /\ store = <<>> /\ seq = 0

\* one digit cell in nine, in a row that would otherwise yield a fact
C13_Witness ==
    /\ runs >= 1
    /\ df = G_Sparse
    /\ Cardinality(DigitCells(df)) = 1 /\ SparseGrid(df)
    /\ fallback_row(df[1], page, "NULL", NoUnits) # <<>>
    /\ latest = <<>> /\ store = <<>>

-----------------------------------------------------------------------------
(* SpecSection: detect_section_label applied to one text                   *)

MaxSectionAtoms == 3

SA_income_statement == <<"i", "n", "c", "o", "m", "e", " ", "s", "t", "a", "t", "e", "m", "e", "n", "t">>
SA_Balance_Sheet == <<"B", "a", "l", "a", "n", "c", "e", " ", "S", "h", "e", "e", "t">>
SA_cash_flow_statement == <<"c", "a", "s", "h", " ", "f", "l", "o", "w", " ", "s", "t", "a", "t", "e", "m", "e", "n", "t">>
SA_KEY_METRICS == <<"K", "E", "Y", " ", "M", "E", "T", "R", "I", "C", "S">>
SA_highlights == <<"h", "i", "g", "h", "l", "i", "g", "h", "t", "s">>
SA_notes == <<"n", "o", "t", "e", "s">>
SA_space == <<" ">>

SectionAtoms == {SA_income_statement, SA_Balance_Sheet, SA_cash_flow_statement, SA_KEY_METRICS, SA_highlights, SA_notes, SA_space}

SectionTexts == TextsUpTo(SectionAtoms, MaxSectionAtoms)

InitSection ==
    /\ pc = "start"
    /\ text \in SectionTexts
    /\ label = "NULL"
    /\ units = NoUnits
    /\ StoreIdle /\ TableIdle /\ NumericIdle /\ HeaderIdle /\ RunIdle

DetectSection ==
    /\ pc = "start"
    /\ label' = detect_section_label(text)
    /\ pc' = "done"
    /\ UNCHANGED <<store, seq, latest, df, page, runs, first, raw, val, text, units, header>>
    /\ UNCHANGED <<pdfs, pos, committed, log, long, wide>>

NextSection == DetectSection

SpecSection == InitSection /\ [][NextSection]_vars

\* the labels in the order the classifier is specified to try them
SectionOrder == <<"income_statement", "balance_sheet", "cash_flow", "kpi">>

\* some pattern of the label matches the text, case-insensitively
LabelMatches(lbl, t) ==
    \E n \in DOMAIN SECTION_PATTERNS :
        /\ SECTION_PATTERNS[n].section = lbl
        /\ \E ws \in SECTION_PATTERNS[n].phrases : SearchPhrase(Lower(t), ws)

\* C14: the label returned is the first of income_statement, balance_sheet,
\* cash_flow, kpi that has a pattern matching the text case-insensitively,
\* and null when no label has one.
C14_SectionOrder ==
    pc = "done" =>
        /\ (\A n \in DOMAIN SectionOrder : ~LabelMatches(SectionOrder[n], text)) => label = "NULL"
        /\ \A n \in DOMAIN SectionOrder :
               (LabelMatches(SectionOrder[n], text)
                   /\ \A k \in 1..(n - 1) : ~LabelMatches(SectionOrder[k], text))
               => label = SectionOrder[n]

\* a text matching a balance-sheet pattern before an income-statement one
C14_Witness ==
    /\ pc = "done"
    /\ text = SA_Balance_Sheet \o SA_space \o SA_income_statement
    /\ LabelMatches("balance_sheet", text) /\ LabelMatches("income_statement", text)
    /\ label = "income_statement"

-----------------------------------------------------------------------------
(* export_all: the long and the wide projection of the store               *)

\* the index of the wide export
WideKey(r) == <<r.company, r.fiscal_year, r.section>>

\* pivot_table groups with dropna=True: a row with a missing (NaN / None)
\* index key belongs to no group
Keyed(rows) == SelectSeq(rows, LAMBDA r : r.fiscal_year # <<>> /\ r.section # "NULL")

\* aggfunc="first": the value of the first row of the group, in row order,
\* that carries the metric; None (NaN) when the group has no such row
first_value(rows, key, metric) ==
    LET hits == {i \in DOMAIN rows : WideKey(rows[i]) = key /\ rows[i].metric = metric}
    IN  IF hits = {} THEN None ELSE rows[CHOOSE i \in hits : \A k \in hits : i <= k].value

\* one record per group of the kept rows, one column per metric of the kept rows
pivot_records(kept) ==
    {[company |-> k[1], fiscal_year |-> k[2], section |-> k[3],
      values |-> [mt \in {kept[i].metric : i \in DOMAIN kept} |-> first_value(kept, k, mt)]] :
        k \in {WideKey(kept[i]) : i \in DOMAIN kept}}

pivot_table(rows) == pivot_records(Keyed(rows))

-----------------------------------------------------------------------------
(* SpecRun: main -- extract_from_pdf on every matched document, page by    *)
(* page and table by table, then export_all                                *)

MaxWriteFailures == 2
MaxReadFailures == 1

\* a page as the collaborators deliver it: its text and its tables
PdfPage(t, tables) == [page_text |-> t, tables |-> tables]

\* the documents: `name` stands for the place of the path in sorted order,
\* company and default_year for what infer_company_and_year makes of it
D_acme ==
    [name |-> 1, company |-> "Acme", default_year |-> <<>>,
     pages |-> << PdfPage(PT_EUR_thousand, <<G_EndToEnd, G_Fallback>>),
                  PdfPage(PT_none, <<G_Fallback>>) >>]
D_beta ==
    [name |-> 2, company |-> "Beta", default_year |-> <<2021>>,
     pages |-> << PdfPage(PT_1990_2024, <<>>),
                  PdfPage(PT_1990_2024, <<G_Fallback, G_Sparse>>) >>]

DocSet == {D_acme, D_beta}

\* sorted(reports_dir.glob(...))
RECURSIVE SortedDocs(_)
SortedDocs(S) ==
    IF S = {} THEN <<>>
    ELSE LET lo == CHOOSE a \in S : \A b \in S : a.name <= b.name
         IN  <<lo>> \o SortedDocs(S \ {lo})

PdfRuns == {SortedDocs(S) : S \in SUBSET DocSet}

\* the arguments extract_from_pdf hands to parse_table for page p of a document
page_context(doc, p) ==
    [company |-> doc.company, default_year |-> doc.default_year, page_no |-> p,
     page_text |-> doc.pages[p].page_text, source_type |-> "camelot_text",
     section_hint |-> detect_section_label(doc.pages[p].page_text)]

\* the loops of main and extract_from_pdf: the page after page q.p of document q.d
next_page(ps, q) ==
    IF q.p < Len(ps[q.d].pages) THEN [d |-> q.d, p |-> q.p + 1, t |-> 0]
    ELSE [d |-> q.d + 1, p |-> 1, t |-> 0]

\* the loop of main has run through every document
pdfs_done_always(ps, q) == TRUE

pdfs_done(ps, q) == q.d > Len(ps)

\* a step of the run: what happened at (document, page, table), and how many
\* facts it upserted
Event(kind, q, n) == [kind |-> kind, d |-> q.d, p |-> q.p, t |-> q.t, n |-> n]

Occurrences(kind) == Cardinality({i \in DOMAIN log : log[i].kind = kind})

TablesHere == pdfs[pos.d].pages[pos.p].tables

InitRun ==
    /\ pc = "main"
    /\ pdfs \in PdfRuns
    /\ pos = [d |-> 1, p |-> 1, t |-> 0]
    /\ committed = <<>> /\ log = <<>> /\ long = <<>> /\ wide = {}
    /\ StoreIdle /\ TableIdle /\ NumericIdle /\ UnitsIdle /\ HeaderIdle /\ SectionIdle

\* the variables the run leaves alone
offRun == <<df, page, runs, first, raw, val, text, units, header, label>>

\* camelot.read_pdf delivers the tables of the page; a page without tables
\* is left at once
ReadTables ==
    /\ pc = "main" /\ ~pdfs_done(pdfs, pos) /\ pos.t = 0
    /\ IF TablesHere = <<>>
       THEN pos' = next_page(pdfs, pos) /\ log' = Append(log, Event("no_tables", pos, 0))
       ELSE pos' = [pos EXCEPT !.t = 1] /\ log' = Append(log, Event("tables", pos, 0))
    /\ UNCHANGED <<store, seq, latest, pdfs, committed, long, wide, pc>>
    /\ UNCHANGED offRun

\* a collaborator failure that gives up the rest of the document
ReadTablesFails_abandon ==
    /\ pc = "main" /\ pos.d <= Len(pdfs) /\ pos.t = 0
    /\ Cardinality({i \in DOMAIN log : log[i].kind = "camelot_error"}) < MaxReadFailures
    /\ pos' = [d |-> pos.d + 1, p |-> 1, t |-> 0]
    /\ log' = Append(log, [kind |-> "camelot_error", d |-> pos.d, p |-> pos.p, t |-> pos.t, n |-> 0])
    /\ UNCHANGED <<store, seq, latest, pdfs, committed, long, wide, pc>>
    /\ UNCHANGED <<df, page, runs, first, raw, val, text, units, header, label>>

\* camelot.read_pdf raises: a warning, and on to the next page
ReadTablesFails ==
    /\ pc = "main" /\ ~pdfs_done(pdfs, pos) /\ pos.t = 0
    /\ Occurrences("camelot_error") < MaxReadFailures
    /\ pos' = next_page(pdfs, pos)
    /\ log' = Append(log, Event("camelot_error", pos, 0))
    /\ UNCHANGED <<store, seq, latest, pdfs, committed, long, wide, pc>>
    /\ UNCHANGED offRun

\* parse_table on table pos.t of the page runs to its end
ExtractTable ==
    /\ pc = "main" /\ ~pdfs_done(pdfs, pos) /\ pos.t \in DOMAIN TablesHere
    /\ \E facts \in {parse_table_facts(TablesHere[pos.t], page_context(pdfs[pos.d], pos.p))} :
           \E db \in {InsertAll(DB(store, seq), facts)} :
               /\ store' = db.store
               /\ seq' = db.seq
               /\ latest' = latest \o facts
               /\ log' = Append(log, Event("table", pos, Len(facts)))
    /\ pos' = [pos EXCEPT !.t = pos.t + 1]
    /\ UNCHANGED <<pdfs, committed, long, wide, pc>>
    /\ UNCHANGED offRun

\* a write failure after which the open transaction is rolled back to the
\* last commit
ExtractTableFails_rollback ==
    /\ pc = "main" /\ pos.d <= Len(pdfs) /\ pos.t \in DOMAIN pdfs[pos.d].pages[pos.p].tables
    /\ Cardinality({i \in DOMAIN log : log[i].kind = "table_error"}) < MaxWriteFailures
    /\ \E facts \in {parse_table_facts(pdfs[pos.d].pages[pos.p].tables[pos.t],
                                        [company |-> pdfs[pos.d].company,
                                         default_year |-> pdfs[pos.d].default_year,
                                         page_no |-> pos.p,
                                         page_text |-> pdfs[pos.d].pages[pos.p].page_text,
                                         source_type |-> "camelot_text",
                                         section_hint |-> detect_section_label(pdfs[pos.d].pages[pos.p].page_text)])} :
           \E k \in DOMAIN facts :
               /\ store' = committed
               /\ seq' = seq + (k - 1)
               /\ latest' = latest \o SubSeq(facts, 1, k - 1)
               /\ log' = Append(log, [kind |-> "table_error", d |-> pos.d, p |-> pos.p, t |-> pos.t, n |-> k - 1])
    /\ pos' = [pos EXCEPT !.t = pos.t + 1]
    /\ UNCHANGED <<pdfs, committed, long, wide, pc>>
    /\ UNCHANGED <<df, page, runs, first, raw, val, text, units, header, label>>

\* the k-th insert_fact of parse_table raises (a write failure): the upserts
\* before it stay, extract_from_pdf catches the exception, logs a warning
\* and goes on with the next table
ExtractTableFails ==
    /\ pc = "main" /\ ~pdfs_done(pdfs, pos) /\ pos.t \in DOMAIN TablesHere
    /\ Occurrences("table_error") < MaxWriteFailures
    /\ \E facts \in {parse_table_facts(TablesHere[pos.t], page_context(pdfs[pos.d], pos.p))} :
           \E k \in DOMAIN facts :
               \E db \in {InsertAll(DB(store, seq), SubSeq(facts, 1, k - 1))} :
                   /\ store' = db.store
                   /\ seq' = db.seq
                   /\ latest' = latest \o SubSeq(facts, 1, k - 1)
                   /\ log' = Append(log, Event("table_error", pos, k - 1))
    /\ pos' = [pos EXCEPT !.t = pos.t + 1]
    /\ UNCHANGED <<pdfs, committed, long, wide, pc>>
    /\ UNCHANGED offRun

\* db.commit() after the tables of the page
CommitPage ==
    /\ pc = "main" /\ ~pdfs_done(pdfs, pos) /\ pos.t = Len(TablesHere) + 1
    /\ committed' = store
    /\ pos' = next_page(pdfs, pos)
    /\ log' = Append(log, Event("commit", pos, 0))
    /\ UNCHANGED <<store, seq, latest, pdfs, long, wide, pc>>
    /\ UNCHANGED offRun

\* export_all(db, args.out) after the loop over the documents; an empty
\* store is not exported
Export ==
    /\ pc = "main" /\ pdfs_done(pdfs, pos)
    /\ long' = store
    /\ wide' = IF store = <<>> THEN {} ELSE pivot_table(store)
    /\ log' = Append(log, Event("export", pos, 0))
    /\ pc' = "exported"
    /\ UNCHANGED <<store, seq, latest, pdfs, pos, committed>>
    /\ UNCHANGED offRun

NextRun ==
    \/ ReadTables
    \/ ReadTablesFails
    \/ ExtractTable
    \/ ExtractTableFails
    \/ CommitPage
    \/ Export

SpecRun == InitRun /\ [][NextRun]_vars

\* the records of the wide export for one (company, fiscal_year, section)
WideRecords(key) ==
    {w \in wide : <<w.company, w.fiscal_year, w.section>> = key}

\* C15: once a non-empty store is exported, every (company, fiscal_year,
\* section) combination of a stored fact, a null fiscal_year or section
\* included, has exactly one record in the wide export, and that record has
\* a field for every metric stored for the combination.
C15_WideExportCoverage ==
    (pc = "exported" /\ store # <<>>) =>
        \A i \in DOMAIN store :
            /\ Cardinality(WideRecords(WideKey(store[i]))) = 1
            /\ \A w \in WideRecords(WideKey(store[i])) : store[i].metric \in DOMAIN w.values

\* the steps that process a table, and those that start on a page
TableSteps == {"table", "table_error"}
PageSteps == {"tables", "no_tables", "camelot_error"}

\* C16: after an upsert has failed in a document, no later table and no
\* later page of that document is processed.
C16_WriteFailureAbortsDocument ==
    \A i, j \in DOMAIN log :
        (i < j /\ log[i].kind = "table_error" /\ log[j].d = log[i].d)
            => log[j].kind \notin (TableSteps \cup PageSteps)

-----------------------------------------------------------------------------
(* End-to-end scenario: the number of facts                                *)

\* C17 as stated: the end-to-end grid, processed once into an empty store,
\* leaves six facts.
C17_Original ==
    (runs = 1 /\ df = G_EndToEnd) => Len(store) = 6

\* C17 (amended): the end-to-end grid, processed once into an empty store,
\* leaves four facts, one per metric row and year column.
C17_EndToEndCount ==
    (runs = 1 /\ df = G_EndToEnd) =>
        /\ Len(store) = 4
        /\ {<<store[i].metric, store[i].fiscal_year>> : i \in DOMAIN store}
               = {M_revenue, M_net_profit} \X {<<2024>>, <<2023>>}

C17_Witness ==
    /\ runs = 1 /\ df = G_EndToEnd /\ page = PG_EndToEnd
    /\ Len(store) = 4 /\ Len(latest) = 4
    /\ \E i \in DOMAIN store : store[i].metric = M_net_profit /\ store[i].fiscal_year = <<2023>>

-----------------------------------------------------------------------------
(* Frame of an upsert                                                      *)

\* C18: an upsert of a fact with identity key k leaves every stored row
\* whose identity key differs from k in the store, with its id and all its
\* fields, whatever upserts came before.
C18_OtherKeysUntouched ==
    [][\A i \in DOMAIN store :
           IdentityKey(store[i]) # IdentityKey(latest'[Len(latest')])
               => \E j \in DOMAIN store' : store'[j] = store[i]]_vars

\* the third upsert replaced the second row; the first row, of another key,
\* is still there
C18_Witness ==
    /\ pc = "store"
    /\ Len(latest) = 3 /\ Len(store) = 2
    /\ store[1].id = 1 /\ store[2].id = 3
    /\ Fields(store[1]) = latest[1]
    /\ IdentityKey(latest[2]) = IdentityKey(latest[3])
    /\ IdentityKey(store[1]) # IdentityKey(store[2])

-----------------------------------------------------------------------------
(* Export ordering                                                         *)

\* every page of every document of the run has been started on
AllPagesProcessed ==
    \A d \in DOMAIN pdfs : \A p \in DOMAIN pdfs[d].pages :
        \E i \in DOMAIN log : log[i].kind \in PageSteps /\ log[i].d = d /\ log[i].p = p

\* C19: the export reads the store only after every page of every document
\* has been processed and its facts committed, and no upsert follows it.
C19_ExportAfterAllPages ==
    /\ [](pc = "exported" =>
              /\ AllPagesProcessed
              /\ committed = store
              /\ long = store
              /\ log[Len(log)].kind = "export"
              /\ Occurrences("export") = 1)
    /\ [][pc = "exported" => (store' = store /\ latest' = latest)]_vars

\* both documents processed, with facts in the store, then exported
C19_Witness ==
    /\ pc = "exported"
    /\ Len(pdfs) = 2
    /\ Occurrences("table") >= 3 /\ Occurrences("commit") = 3
    /\ store # <<>> /\ long = store

-----------------------------------------------------------------------------
(* Fallback fiscal-year resolution                                         *)

\* the positions of the bare 4-digit numbers of a text that are years within
\* [MIN_YEAR, MAX_YEAR]
BareYearsInRange(s) ==
    {i \in 1..(Len(s) - 3) :
        /\ Boundary(s, i) /\ Boundary(s, i + 4)
        /\ \A k \in i..(i + 3) : IsDigit(s[k])
        /\ DigitsValue(SubSeq(s, i, i + 3)) >= MIN_YEAR
        /\ DigitsValue(SubSeq(s, i, i + 3)) <= MAX_YEAR}

\* the resolution order: the default year, else the first bare year of the
\* page text that is within range, else null
ResolvedYear(pg) ==
    IF pg.default_year # <<>> THEN pg.default_year
    ELSE IF BareYearsInRange(pg.page_text) = {} THEN <<>>
    ELSE LET i == CHOOSE i \in BareYearsInRange(pg.page_text) :
                      \A k \in BareYearsInRange(pg.page_text) : i <= k
         IN  <<DigitsValue(SubSeq(pg.page_text, i, i + 3))>>

\* C20: every fact of the fallback path carries the default year when it is
\* set, else the first bare 4-digit year of the page text within
\* [1995, 2036] (also after an earlier out-of-range year), else null; and
\* the fact is stored.
C20_FallbackYearResolution ==
    (runs >= 1 /\ find_year_header_map(df).header_idx = <<>>) =>
        \A n \in DOMAIN latest :
            /\ latest[n].fiscal_year = ResolvedYear(page)
            /\ \E i \in DOMAIN store : Fields(store[i]) = latest[n]

-----------------------------------------------------------------------------
(* Multi-year path: which cells become facts                               *)

\* the label of a row: column 0, normalised and lower-cased
RowLabel(row) == Lower(normalize_text(row[1]))

\* the cells below the header row, in a year column, that parse to a number
ParsedYearCells(grid, h) ==
    {c \in ((h.header_idx[1] + 1)..Len(grid)) \X (DOMAIN h.col2year) :
        clean_numeric(grid[c[1]][c[2]]) # None}

\* those of them that stand in a row with a label
LabelledYearCells(grid, h) ==
    {c \in ParsedYearCells(grid, h) : RowLabel(grid[c[1]]) \notin {<<>>, <<"-">>, <<EMDASH>>}}

\* the place of cell c among the cells S, row by row and column by column
Rank(c, S) == Cardinality({d \in S : d[1] < c[1] \/ (d[1] = c[1] /\ d[2] <= c[2])})

\* the upserts of one run are exactly one per cell of S, each with the year
\* of the cell's column, the label of its row, confidence 1.0 and the parsed
\* number times scale_applied
OneUpsertPerCell(grid, h, S) ==
    /\ Len(latest) = Cardinality(S)
    /\ \A c \in S :
           /\ latest[Rank(c, S)].fiscal_year = <<h.col2year[c[2]]>>
           /\ latest[Rank(c, S)].metric = RowLabel(grid[c[1]])
           /\ latest[Rank(c, S)].confidence = One
           /\ latest[Rank(c, S)].value =
                  Mul(clean_numeric(grid[c[1]][c[2]]), latest[Rank(c, S)].scale_applied)

\* C21 as stated: every cell below the header in a year column that parses
\* yields exactly one upsert, whatever the label of its row.
C21_Original ==
    (runs = 1 /\ find_year_header_map(df).header_idx # <<>>)
        => OneUpsertPerCell(df, find_year_header_map(df), ParsedYearCells(df, find_year_header_map(df)))

\* C21 (amended): the upserts of the multi-year path are exactly one per
\* cell that stands below the header row, in a year column, in a row whose
\* label is not empty or a dash, and that parses to a number; each carries
\* the year of its column, confidence 1.0 and the parsed number times
\* scale_applied.  A cell that does not parse yields nothing.
C21_MultiYearCells ==
    (runs = 1 /\ find_year_header_map(df).header_idx # <<>>)
        => OneUpsertPerCell(df, find_year_header_map(df), LabelledYearCells(df, find_year_header_map(df)))

\* header in the second row, a row above it, rows without a label and cells
\* that do not parse below it: two facts
C21_Witness ==
    /\ runs = 1 /\ df = G_MultiYear
    /\ find_year_header_map(df).header_idx = <<2>>
    /\ Cardinality(ParsedYearCells(df, find_year_header_map(df))) = 6
    /\ Len(latest) = 2
    /\ latest[1].metric = <<"r", "e", "v">> /\ latest[1].fiscal_year = <<2024>>
    /\ latest[2].metric = M_net_profit /\ latest[2].fiscal_year = <<2023>>

-----------------------------------------------------------------------------
(* Fallback path: first hit wins                                           *)

\* the columns after column 0 of a row whose cell parses to a number
ValueColumns(row) == {j \in 2..Len(row) : clean_numeric(row[j]) # None}

\* the rows of the grid that have a label and a value column
FallbackRows(grid) ==
    {i \in DOMAIN grid : RowLabel(grid[i]) # <<>> /\ ValueColumns(grid[i]) # {}}

\* the lowest value column of a row
FirstHit(row) == CHOOSE j \in ValueColumns(row) : \A k \in ValueColumns(row) : j <= k

\* C22: in the fallback path the upserts are one per row that has a label in
\* column 0 and a cell after column 0 that parses; the value is the parse of
\* the lowest such column (times scale_applied), never a later column and
\* never column 0; a row without such a cell yields nothing.
C22_FallbackFirstHit ==
    (runs = 1 /\ find_year_header_map(df).header_idx = <<>> /\ ~SparseGrid(df)) =>
        /\ Len(latest) = Cardinality(FallbackRows(df))
        /\ \A i \in FallbackRows(df) :
               LET f == latest[Cardinality({k \in FallbackRows(df) : k <= i})]
               IN  /\ f.metric = RowLabel(df[i])
                   /\ f.value = Mul(clean_numeric(df[i][FirstHit(df[i])]), f.scale_applied)

\* a row with two parsing cells after the label: the first one, 2024, is
\* the value, the later (80) is ignored
C22_Witness ==
    /\ runs = 1
    /\ df = << <<C_Rev, C_2024, C_paren_80>> >>
    /\ ValueColumns(df[1]) = {2, 3}
    /\ Len(latest) = 1
    /\ latest[1].value = Norm(2024, 0)

-----------------------------------------------------------------------------
(* Numeric literals: parentheses around a minus, minus signs inside        *)

\* C23: a cell that starts with "(" and ends with ")" parses to None or to a
\* number that is not positive, also when the text inside the parentheses
\* carries a minus sign.
C23_ParenthesisedNeverPositive ==
    (pc = "done" /\ Len(raw) >= 2 /\ raw[1] = "(" /\ raw[Len(raw)] = ")")
        => val = None \/ val.m <= 0

\* the digits, commas and periods of a cell
KeptChars(cell) == SelectSeq(cell, LAMBDA c : IsDigit(c) \/ c \in {",", "."})

\* C24: in a cell that starts with a digit and holds no parenthesis, every
\* character other than a digit, a comma and a period is discarded, a minus
\* sign included: the cell parses to the number its digits, commas and
\* periods denote.
C24_InnerMinusDiscarded ==
    (pc = "done" /\ raw # <<>> /\ IsDigit(raw[1])
        /\ (\A i \in DOMAIN raw : raw[i] \notin {"(", ")"})
        /\ IsUnsignedLiteral(KeptChars(raw)))
    => val = LiteralValue(KeptChars(raw))

-----------------------------------------------------------------------------
(* Compact symbol pattern and the scale-word map                           *)

\* the multiplier the scale-word map assigns to a word
MapScale(w) ==
    IF w \in {W_thousand, W_thousands, W_000s, W_k} THEN Norm(1, 3)
    ELSE IF w \in {W_million, W_millions, W_mn, W_m} THEN Norm(1, 6)
    ELSE Norm(1, 9)

\* C25: on a text that is a currency symbol followed by a word of the
\* scale-word map, with or without a space between them, unit inference
\* returns the multiplier of the word and the currency of the symbol.
C25_CompactCoversScaleWords ==
    pc = "done" =>
        \A c \in SymbolChars : \A sep \in {<<>>, <<" ">>} : \A w \in ScaleWords :
            text = <<c>> \o sep \o w
                => units.scale = MapScale(w) /\ units.currency = SymbolCode(c)

-----------------------------------------------------------------------------
(* Collaborator failure                                                    *)

\* the run is past page p of document d
PastPage(d, p) == pos.d > d \/ (pos.d = d /\ pos.p > p)

\* C26: when camelot fails for a page, the page yields no fact and is not
\* read again, every later page of the document is still processed, and
\* the facts stored before stay in the store.
C26_CollaboratorFailureSkipped ==
    /\ [](\A i \in DOMAIN log : log[i].kind = "camelot_error" =>
              /\ \A j \in DOMAIN log : (log[j].d = log[i].d /\ log[j].p = log[i].p) => j = i
              /\ \A n \in DOMAIN latest :
                     ~(latest[n].company = pdfs[log[i].d].company
                           /\ latest[n].source_page = log[i].p)
              /\ \A q \in DOMAIN pdfs[log[i].d].pages :
                     (q > log[i].p /\ PastPage(log[i].d, q)) =>
                         \E j \in DOMAIN log :
                             log[j].kind \in PageSteps /\ log[j].d = log[i].d /\ log[j].p = q)
    /\ [][(Len(log') = Len(log) + 1 /\ log'[Len(log')].kind = "camelot_error")
              => (store' = store /\ committed' = committed /\ latest' = latest)]_vars

\* camelot fails on page 1 of the second document: the facts of the first
\* document are still stored and page 2 is processed
C26_Witness ==
    /\ pc = "exported"
    /\ \E i \in DOMAIN log : log[i].kind = "camelot_error" /\ log[i].d = 2 /\ log[i].p = 1
    /\ \E j \in DOMAIN log : log[j].kind = "table" /\ log[j].d = 2 /\ log[j].p = 2 /\ log[j].n > 0
    /\ \E k \in DOMAIN store : store[k].company = "Acme"
    /\ \E k \in DOMAIN store : store[k].company = "Beta"

-----------------------------------------------------------------------------
(* SpecExport: insert_fact calls on a store that export_all reads, the     *)
(* database file being kept from one run of main to the next               *)

InitExport == Init

\* export_all(db, out_dir): the long table is the rows in rowid order, the
\* wide table its pivot; an empty store is not exported
ExportAll ==
    /\ pc = "store"
    /\ store # <<>>
    /\ long' = store
    /\ wide' = pivot_table(store)
    /\ UNCHANGED <<store, seq, latest, df, page, runs, first, raw, val, text, units, header, pc>>
    /\ UNCHANGED <<label, pdfs, pos, committed, log>>

NextExport ==
    \/ \E f \in StoreFacts : InsertFact(f)
    \/ ExportAll

SpecExport == InitExport /\ [][NextExport]_vars

\* rows i and j of the export are facts of one (company, fiscal_year,
\* section) and one metric that differ in source_page or source_type
SharedCell(rows, i, j) ==
    /\ i # j
    /\ WideKey(rows[i]) = WideKey(rows[j])
    /\ rows[i].metric = rows[j].metric
    /\ (rows[i].source_page # rows[j].source_page \/ rows[i].source_type # rows[j].source_type)

\* the first row, in store iteration order, of the (key, metric) of row i
FirstOfCell(rows, i) ==
    CHOOSE k \in DOMAIN rows :
        /\ WideKey(rows[k]) = WideKey(rows[i]) /\ rows[k].metric = rows[i].metric
        /\ \A n \in DOMAIN rows :
               (WideKey(rows[n]) = WideKey(rows[i]) /\ rows[n].metric = rows[i].metric) => k <= n

\* the wide export shows value v for the (key, metric) of row r
WideShows(r, v) ==
    \E w \in wide :
        /\ <<w.company, w.fiscal_year, w.section>> = WideKey(r)
        /\ r.metric \in DOMAIN w.values
        /\ w.values[r.metric] = v

\* C27: when several exported facts share (company, fiscal_year, section)
\* and metric and differ in source_page or source_type, the wide export
\* shows for that metric the value of the first of them in store iteration
\* order.
C27_WideTieBreak ==
    \A i, j \in DOMAIN long :
        SharedCell(long, i, j) => WideShows(long[i], long[FirstOfCell(long, i)].value)

\* the same for the facts whose fiscal_year and section are both set
C27_KeyedTieBreak ==
    \A i, j \in DOMAIN long :
        (SharedCell(long, i, j) /\ long[i].fiscal_year # <<>> /\ long[i].section # "NULL")
            => /\ WideShows(long[i], long[FirstOfCell(long, i)].value)
               /\ \A v \in {long[k].value : k \in DOMAIN long} :
                      WideShows(long[i], v) => v = long[FirstOfCell(long, i)].value

\* two exported facts of (2024, kpi, revenue) from pages 3 and 4 with
\* different values, the first one shown
C27_KeyedWitness ==
    \E i, j \in DOMAIN long :
        /\ i < j /\ SharedCell(long, i, j)
        /\ long[i].fiscal_year = <<2024>> /\ long[i].section = "kpi"
        /\ long[i].value # long[j].value
        /\ WideShows(long[i], long[i].value)

\* the wide table export_all makes of the rows
wide_export(rows) == IF rows = <<>> THEN {} ELSE pivot_table(rows)

\* the step upserts a fact that the store holds already, field for field
Reupsert ==
    /\ Len(latest') = Len(latest) + 1
    /\ \E i \in DOMAIN store : Fields(store[i]) = latest'[Len(latest')]

\* C28: upserting again a fact that is already stored, with identical
\* field values, leaves the wide export unchanged.
C28_ReupsertKeepsExport ==
    [][Reupsert => wide_export(store') = wide_export(store)]_vars

\* the fiscal year of the facts of the table is the default year of the
\* page: the table has no year header and the page came with a default year
FromDefaultYear(fy) ==
    /\ find_year_header_map(df).header_idx = <<>>
    /\ page.default_year # <<>>
    /\ fy = page.default_year

\* C29: every stored fact whose fiscal_year was not taken from the default
\* year of the page has a fiscal_year that is null or within
\* [MIN_YEAR, MAX_YEAR].
C29_FiscalYearRange ==
    \A i \in DOMAIN store :
        \/ store[i].fiscal_year = <<>>
        \/ MIN_YEAR <= store[i].fiscal_year[1] /\ store[i].fiscal_year[1] <= MAX_YEAR
        \/ FromDefaultYear(store[i].fiscal_year)

\* a header row with the cells 1990, 2024 and 2023: the column of 1990 is
\* no year column and gives no fact
C29_Witness ==
    /\ runs >= 1
    /\ df = G_OldYear
    /\ Len(store) = 2
    /\ {store[i].fiscal_year : i \in DOMAIN store} = {<<2024>>, <<2023>>}

\* the first bare year of the page text is 1990: the fallback fact has no year
C29_WitnessSniff ==
    /\ runs >= 1
    /\ df = G_Fallback
    /\ page.page_text = PT_1990_2024 /\ page.default_year = <<>>
    /\ Len(store) = 2
    /\ \A i \in DOMAIN store : store[i].fiscal_year = <<>>

\* the number of facts upserted by the steps before step i of the run
RECURSIVE UpsertsBefore(_)
UpsertsBefore(i) == IF i <= 1 THEN 0 ELSE UpsertsBefore(i - 1) + log[i - 1].n

\* the facts step i of the run upserted
Upserted(i) == SubSeq(latest, UpsertsBefore(i) + 1, UpsertsBefore(i) + log[i].n)

\* the run is past table t of page p of document d
PastTable(d, p, t) == PastPage(d, p) \/ (pos.d = d /\ pos.p = p /\ pos.t > t)

\* C30: when a table fails part-way, the facts upserted from it before the
\* failure stay in the store, the next table of the page is still
\* processed, and the commit at the end of the page commits those facts.
C30_NoRollbackOnTableError ==
    /\ [](\A i \in DOMAIN log : log[i].kind = "table_error" =>
              /\ \A n \in DOMAIN Upserted(i) :
                     \E k \in DOMAIN store : Fields(store[k]) = Upserted(i)[n]
              /\ (log[i].t < Len(pdfs[log[i].d].pages[log[i].p].tables)
                      /\ PastTable(log[i].d, log[i].p, log[i].t + 1)) =>
                     \E j \in DOMAIN log :
                         /\ j > i /\ log[j].kind \in TableSteps
                         /\ log[j].d = log[i].d /\ log[j].p = log[i].p /\ log[j].t = log[i].t + 1
              /\ PastPage(log[i].d, log[i].p) =>
                     /\ \E j \in DOMAIN log :
                            /\ j > i /\ log[j].kind = "commit"
                            /\ log[j].d = log[i].d /\ log[j].p = log[i].p
                     /\ \A n \in DOMAIN Upserted(i) :
                            \E k \in DOMAIN committed : Fields(committed[k]) = Upserted(i)[n])
    /\ [][(Len(log') = Len(log) + 1 /\ log'[Len(log')].kind = "commit") => committed' = store]_vars

\* the first table of page 1 of Acme fails at its third upsert: its two
\* facts and the two facts of the second table are committed
C30_Witness ==
    /\ pc = "exported"
    /\ \E i \in DOMAIN log :
           /\ log[i].kind = "table_error" /\ log[i].n = 2
           /\ pdfs[log[i].d].company = "Acme" /\ log[i].p = 1 /\ log[i].t = 1
           /\ \A n \in DOMAIN Upserted(i) :
                  \E k \in DOMAIN committed : Fields(committed[k]) = Upserted(i)[n]
           /\ \E j \in DOMAIN log :
                  /\ log[j].kind = "table" /\ log[j].n = 2
                  /\ log[j].d = log[i].d /\ log[j].p = 1 /\ log[j].t = 2

====
